---- MODULE Spec2Model ----
(***************************************************************************)
(* A model of the authenticated request pipeline of safewalk-fe:           *)
(* src/src/api/client.ts (class ApiClient).  One ApiClient, a bounded      *)
(* number of callers whose request()/login()/register() calls interleave   *)
(* on the single JavaScript thread, and a backend that may answer every    *)
(* HTTP call in any order with any response.                               *)
(*                                                                         *)
(* Granularity: one action is one macrotask of the event loop together     *)
(* with the microtasks (promise continuations) it schedules, because the   *)
(* microtask queue drains before the next macrotask starts.  A body read   *)
(* (response.json(), response.text()) touches no state of the client       *)
(* between the arrival of the response and the end of the read, so the     *)
(* arrival and the read are one step, taken when the read completes.       *)
(***************************************************************************)
EXTENDS Integers, FiniteSets, Sequences, TLC

\* ------------------------------------------------------------------ bounds
MaxCalls == 2        \* request()/login()/register() calls made in one run
NumPairs == 2        \* distinct credential pairs the backend issues
MaxMounts == 2       \* times ActiveTripPage is mounted in a run
MaxUpdates == 2      \* invocations of sendLocationUpdate in a run
NumAlerts == 1       \* alerts the backend raises for the trip

\* The calls of a run, numbered in the order they are made
Callers == 1..MaxCalls

\* ------------------------------------------------------------------ values
Null == "null"             \* JavaScript null
Undef == "undefined"       \* JavaScript undefined (a missing field)

AccessOf(n) == "a" \o ToString(n)
RefreshOf(n) == "r" \o ToString(n)

\* AuthTokens as the backend issues them
PairOf(n) == [accessToken |-> AccessOf(n), refreshToken |-> RefreshOf(n)]

\* JavaScript truthiness of a token field (!!this.accessToken, !this.refreshToken)
Truthy(tok) == tok \notin {Null, Undef, ""}

\* The localStorage record 'safewalk_tokens': absent, or a text that is
\* malformed JSON, the JSON null, a JSON number, or a JSON object in which a
\* missing key reads as undefined.
NoRecord == [kind |-> "absent", accessToken |-> Undef, refreshToken |-> Undef]
TextRecord(k) == [kind |-> k, accessToken |-> Undef, refreshToken |-> Undef]

\* JSON.stringify(tokens): an undefined field is left out of the text
Stringify(tokens) ==
    [kind |-> "object", accessToken |-> tokens.accessToken,
     refreshToken |-> tokens.refreshToken]

PersistedValues ==
    {NoRecord, TextRecord("malformed"), TextRecord("null"), TextRecord("number"),
     Stringify([accessToken |-> AccessOf(1), refreshToken |-> RefreshOf(1)]),
     Stringify([accessToken |-> AccessOf(1), refreshToken |-> Undef]),
     Stringify([accessToken |-> Undef, refreshToken |-> RefreshOf(1)])}

\* ------------------------------------------------------------ token store
\* The three stored fields, as one record
Store(a, r, s) == [accessToken |-> a, refreshToken |-> r, storage |-> s]

setTokens(tokens) ==
    Store(tokens.accessToken, tokens.refreshToken, Stringify(tokens))

clearTokens == Store(Null, Null, NoRecord)

\* loadTokens over the persisted record rec, from the field initialisers
\* (null, null): getItem, JSON.parse, two field reads; any throw clears.
loadTokens(rec) ==
    CASE rec.kind = "absent" -> Store(Null, Null, rec)
      [] rec.kind = "malformed" -> clearTokens          \* JSON.parse throws
      [] rec.kind = "null" -> clearTokens               \* null.accessToken throws
      [] OTHER -> Store(rec.accessToken, rec.refreshToken, rec)

\* ------------------------------------------------------------- the backend
\* What one fetch() settles with: a rejection (no response: DNS, connection),
\* or a response with a status and a body.  body: "empty", "json" (parses),
\* "text" (does not parse).  message: the message member of a JSON body, Undef
\* when the body has none.  pair: the credential pair a JSON body carries
\* (0: the body is no credential pair).
NoResponse ==
    [kind |-> "none", status |-> 0, body |-> "empty", message |-> Undef, pair |-> 0]
NetworkFailure ==
    [kind |-> "failure", status |-> 0, body |-> "empty", message |-> Undef, pair |-> 0]
Http(st, b, m, n) ==
    [kind |-> "response", status |-> st, body |-> b, message |-> m, pair |-> n]

BackendMessage == "message of the error body"

\* Answers to the HTTP call of request(), by operation
Responses(storesTokens) ==
    {NetworkFailure,
     Http(200, "empty", Undef, 0), Http(200, "text", Undef, 0),
     Http(401, "json", BackendMessage, 0),
     Http(409, "text", Undef, 0),
     Http(500, "json", Undef, 0)}
    \cup (IF storesTokens
          THEN {Http(200, "json", Undef, n) : n \in 1..NumPairs}
          ELSE {Http(200, "json", Undef, 0)})

\* Answers to POST /api/v1/auth/refresh
RefreshResponses ==
    {NetworkFailure, Http(400, "json", BackendMessage, 0), Http(200, "text", Undef, 0)}
    \cup {Http(200, "json", Undef, n) : n \in 1..NumPairs}

\* response.ok
Ok(resp) == resp.status \in 200..299

\* ------------------------------------------------------- request(): pieces
NoHeader == "no Authorization header"

\* The Authorization header, attached whenever a credential is held
AuthorizationHeaderAlways(requiresAuth, token) ==
    IF Truthy(token) THEN "Bearer " \o token ELSE NoHeader

\* The Authorization header request() builds
AuthorizationHeader(requiresAuth, token) ==
    IF requiresAuth /\ Truthy(token) THEN "Bearer " \o token ELSE NoHeader

\* The guard of the 401 recovery, with the retry flag left out
RecoversUnauthorizedAnyTime(status, requiresAuth, retryOnUnauthorized) ==
    status = 401 /\ requiresAuth

\* The guard of the 401 recovery
RecoversUnauthorized(status, requiresAuth, retryOnUnauthorized) ==
    status = 401 /\ requiresAuth /\ retryOnUnauthorized

\* The recursive call made with the default retryOnUnauthorized
RetryOnUnauthorizedDefault == TRUE

\* The retryOnUnauthorized argument of the recursive call
RetryOnUnauthorizedOfRetry == FALSE

\* A settled or pending promise of request(), and a thrown value.  hasStatus
\* is whether the thrown value has a status member at all (a TypeError of
\* fetch or a SyntaxError of JSON.parse has none).
Pending ==
    [kind |-> "pending", hasStatus |-> FALSE, status |-> 0, message |-> Undef,
     value |-> "none"]
Resolved(v) ==
    [kind |-> "resolved", hasStatus |-> FALSE, status |-> 0, message |-> Undef,
     value |-> v]
Thrown(st, m) ==
    [kind |-> "rejected", hasStatus |-> TRUE, status |-> st, message |-> m,
     value |-> "none"]
Exception ==
    [kind |-> "rejected", hasStatus |-> FALSE, status |-> 0, message |-> "exception",
     value |-> "none"]

SessionExpired == Thrown(401, "Session expired. Please login again.")
NetworkError == Thrown(0, "Network error. Please check your connection.")
StatusText == "statusText of the response"

\* throw errorData, the status of the response not written over it
ErrorFromResponseNoStatus(resp) ==
    IF resp.body = "json"
    THEN [kind |-> "rejected", hasStatus |-> FALSE, status |-> 0,
          message |-> resp.message, value |-> "none"]
    ELSE Thrown(resp.status, StatusText)

\* throw { ...errorData, status: response.status } with errorData the parsed
\* body, or { status, message: statusText } when response.json() throws
ErrorFromResponse(resp) ==
    IF resp.body = "json"
    THEN Thrown(resp.status, resp.message)
    ELSE Thrown(resp.status, StatusText)

\* The text of an ok response handed to JSON.parse even when it is empty
BodyResultParsing(resp) ==
    IF resp.body = "json" THEN Resolved("parsed body") ELSE Exception

\* The end of the try block: the text of an ok response
BodyResult(resp) ==
    CASE resp.body = "empty" -> Resolved("{}")
      [] resp.body = "json" -> Resolved("parsed body")
      [] OTHER -> Exception                              \* JSON.parse throws

\* The catch block turning every thrown value into the network error
CatchAlwaysNetwork(error) ==
    IF error.kind # "rejected" THEN error ELSE NetworkError

\* The catch block of request()
Catch(error) ==
    IF error.kind # "rejected" THEN error
    ELSE IF error.hasStatus /\ error.status # 0 THEN error
    ELSE NetworkError

\* ------------------------------------------------ refreshAccessToken(): pieces
\* No shared promise
NoPromise == [id |-> 0]
PromiseOf(n) == [id |-> n]

\* The guard with the in-flight marker never seen
JoinsInFlightNever(refreshing, promise) == FALSE

\* The guard under which a caller is handed the shared promise
JoinsInFlight(refreshing, promise) == refreshing /\ promise # NoPromise

\* The finally block leaving the in-flight marker as it is
AfterFinallyKept(refreshing, promise) ==
    [isRefreshing |-> refreshing, refreshPromise |-> promise]

\* The finally block resetting the flag and keeping the promise
AfterFinallyFlagOnly(refreshing, promise) ==
    [isRefreshing |-> FALSE, refreshPromise |-> promise]

\* The finally block of the refresh task: the in-flight marker after it
AfterFinally(refreshing, promise) ==
    [isRefreshing |-> FALSE, refreshPromise |-> NoPromise]

\* The refresh task returning false without clearTokens()
RefreshOutcomeKeeping(resp, st) ==
    IF resp.kind = "response" /\ Ok(resp) /\ resp.body = "json" /\ resp.pair # 0
    THEN [ok |-> TRUE, store |-> setTokens(PairOf(resp.pair))]
    ELSE [ok |-> FALSE, store |-> st]

\* The refresh task without its test of response.ok
RefreshOutcomeUnchecked(resp, st) ==
    IF resp.kind = "response" /\ resp.body = "json"
    THEN [ok |-> TRUE,
          store |-> IF resp.pair # 0 THEN setTokens(PairOf(resp.pair))
                    ELSE setTokens([accessToken |-> Undef, refreshToken |-> Undef])]
    ELSE [ok |-> FALSE, store |-> clearTokens]

\* What the refresh task does with its answer, the stored fields being st:
\* the stored fields after it and the boolean it returns
RefreshOutcome(resp, st) ==
    IF resp.kind = "response" /\ Ok(resp) /\ resp.body = "json" /\ resp.pair # 0
    THEN [ok |-> TRUE, store |-> setTokens(PairOf(resp.pair))]
    ELSE [ok |-> FALSE, store |-> clearTokens]

\* -------------------------------------------------------------------- state
VARIABLES
    accessToken,     \* ApiClient.accessToken
    refreshToken,    \* ApiClient.refreshToken
    storage,         \* localStorage['safewalk_tokens']
    isRefreshing,    \* ApiClient.isRefreshing
    refreshPromise,  \* ApiClient.refreshPromise
    refreshes,       \* the refresh tasks whose HTTP call is in flight
    outcomes,        \* per refresh task ever started: "pending", "true", "false"
    calls,           \* per call of the run: how far it is, and what it saw
    started,         \* calls made so far
    mode,            \* localStorage: "up", "full" (setItem throws), "denied"
    last,            \* the latest token store operation, and how it ended
    user,            \* AuthProvider: the user state
    isLoading,       \* AuthProvider: the isLoading state
    awaiting,        \* per call, what the provider does with it: see Awaits
    page             \* ActiveTripPage, the timers of its window, its calls in
                     \* flight and the alerts at the backend: see PageInit

client ==
    <<accessToken, refreshToken, storage, isRefreshing, refreshPromise,
      refreshes, outcomes, calls, started>>

vars ==
    <<accessToken, refreshToken, storage, isRefreshing, refreshPromise,
      refreshes, outcomes, calls, started, mode, last, page, user, isLoading, awaiting>>

\* A call not made yet.  Of one call: whether login() or
\* register() made it (storesTokens), the two flags of request(),
\* where it stands (pc), the Authorization header of its latest HTTP call
\* (hdr), how many HTTP calls it made to its endpoint (httpCalls), how many
\* times it awaited refreshAccessToken() (refreshAwaits), the refresh task it
\* awaits or awaited (awaits, 0: none), the refresh task in flight when it
\* invoked refreshAccessToken() (arrived, 0: none), whether a refresh
\* credential was held then (held), whether it started a refresh HTTP call
\* (startedRefresh), the boolean refreshAccessToken() gave it (obs), the
\* answer to its latest HTTP call (resp) and how its promise settled (result).
NoCall ==
    [storesTokens |-> FALSE, requiresAuth |-> FALSE, retryOnUnauthorized |-> FALSE,
     pc |-> "idle", hdr |-> NoHeader, httpCalls |-> 0, refreshAwaits |-> 0,
     awaits |-> 0, arrived |-> 0, held |-> FALSE, startedRefresh |-> FALSE,
     obs |-> "none", resp |-> NoResponse, result |-> Pending]

InFlight(c) == c.pc \in {"fetch", "awaitRefresh"}

StoreIs(st) ==
    /\ accessToken' = st.accessToken
    /\ refreshToken' = st.refreshToken
    /\ storage' = st.storage

StoreOf == Store(accessToken, refreshToken, storage)

\* The state after construction over the persisted record rec
InitOver(rec) ==
    /\ accessToken = loadTokens(rec).accessToken
    /\ refreshToken = loadTokens(rec).refreshToken
    /\ storage = loadTokens(rec).storage
    /\ isRefreshing = FALSE
    /\ refreshPromise = NoPromise
    /\ refreshes = {}
    /\ outcomes = <<>>
    /\ calls = [p \in Callers |-> NoCall]
    /\ started = 0

\* ---------------------------------------------------------- ActiveTripPage
Alerts == 1..NumAlerts

\* The trip state: null, the {} that request() makes of an empty body, or the
\* TripResponse of an active trip (status 'ACTIVE')
NoTrip == "null"
EmptyObject == "{}"
ActiveTrip == "TripResponse with status ACTIVE"

\* One invocation of loadTrip: where it stands, the alert list the backend
\* answered with, whether it called navigate('/trips')
NoLoad == [stage |-> "idle", list |-> {}, navigated |-> FALSE]

\* One invocation of sendLocationUpdate: where it stands, the alert list the
\* backend answered with, the mount that made it, and whether it was made
\* when that mount was gone (late)
NoPoll == [stage |-> "idle", list |-> {}, mount |-> 0, late |-> FALSE]

\* One invocation of handleRespondToAlert, per alert
NoRespond == [stage |-> "none", mount |-> 0]

\* The page before it is first mounted.  The component state of the current
\* mount (trip, locationUpdate, alerts, isLoading, error, the ref
\* locationIntervalRef with 0 for null, effect: the effect on [trip,
\* sendLocationUpdate] is due); the interval timers of the window; the
\* calls in flight; and the backend's alerts: raised so far, still PENDING.
PageInit ==
    [mounted |-> FALSE, mounts |-> 0,
     trip |-> NoTrip, locationUpdate |-> FALSE, alerts |-> {},
     isLoading |-> TRUE, error |-> FALSE, ref |-> 0, effect |-> FALSE,
     timers |-> {}, made |-> 0,
     loads |-> [m \in 1..MaxMounts |-> NoLoad],
     polls |-> [i \in 1..MaxUpdates |-> NoPoll], updates |-> 0,
     respond |-> [a \in Alerts |-> NoRespond],
     raised |-> {}, pending |-> {}]

\* No token store operation yet
NoOperation == [op |-> "none", raised |-> FALSE, rec |-> NoRecord]

\* The user state: null, or what GET /api/v1/users/me resolved with
NoUser == "null"

\* AuthProvider before its first effect: useState(null), useState(true)
AuthInit ==
    /\ user = NoUser
    /\ isLoading = TRUE
    /\ awaiting = [p \in Callers |-> "no"]

\* The client alone, over a localStorage that works and with no AuthProvider
Init ==
    /\ \E rec \in PersistedValues : InitOver(rec)
    /\ mode = "up"
    /\ last = NoOperation
    /\ page = PageInit
    /\ AuthInit

\* ------------------------------------------------------------------ actions
\* request(endpoint, options, requiresAuth, retryOnUnauthorized) up to its
\* await fetch, as call p of the run; storesTokens: the call is made by
\* login() or register(), which store the pair it resolves with
Send(p, storesTokens, requiresAuth) ==
    /\ started < MaxCalls
    /\ p = started + 1
    /\ started' = started + 1
    /\ calls' = [calls EXCEPT ![p] =
           [NoCall EXCEPT
               !.storesTokens = storesTokens, !.requiresAuth = requiresAuth,
               !.retryOnUnauthorized = TRUE, !.pc = "fetch",
               !.hdr = AuthorizationHeader(requiresAuth, accessToken),
               !.httpCalls = 1]]
    /\ UNCHANGED <<accessToken, refreshToken, storage, isRefreshing,
                   refreshPromise, refreshes, outcomes>>

\* apiClient.request(...) by the API modules (users, trips, ...)
Request(p, requiresAuth) == Send(p, FALSE, requiresAuth)

\* apiClient.login(email, password) up to its await
Login(p) == Send(p, TRUE, FALSE)

\* apiClient.register(data) up to its await
Register(p) == Send(p, TRUE, FALSE)

\* apiClient.logout()
Logout ==
    /\ StoreIs(clearTokens)
    /\ UNCHANGED <<isRefreshing, refreshPromise, refreshes, outcomes, calls, started>>

\* How the promise of p's call settles once its HTTP call is answered by resp
\* and no refresh is awaited
Settle(c, resp) ==
    IF resp.kind = "failure" THEN Catch(Exception)
    ELSE IF ~Ok(resp) THEN Catch(ErrorFromResponse(resp))
    ELSE Catch(BodyResult(resp))

\* login() and register() storing what they have whether or not request()
\* resolved
AfterRequestAlways(c, resp, res, st) ==
    IF c.storesTokens
    THEN IF resp.body = "json" /\ resp.pair # 0
         THEN setTokens(PairOf(resp.pair))
         ELSE setTokens([accessToken |-> Undef, refreshToken |-> Undef])
    ELSE st

\* login() and register() after their await: setTokens(tokens) when request()
\* resolved
AfterRequest(c, resp, res, st) ==
    IF c.storesTokens /\ res.kind = "resolved"
    THEN IF resp.body = "json" /\ resp.pair # 0
         THEN setTokens(PairOf(resp.pair))
         ELSE setTokens([accessToken |-> Undef, refreshToken |-> Undef])
    ELSE st

\* The HTTP call of p settles with resp: request() from the await of fetch to
\* its next await or its end, refreshAccessToken() up to its await included
Respond(p, resp) ==
    LET c == calls[p] IN
    /\ c.pc = "fetch"
    /\ resp \in Responses(c.storesTokens)
    /\ UNCHANGED started
    /\ IF resp.kind = "response"
          /\ RecoversUnauthorized(resp.status, c.requiresAuth, c.retryOnUnauthorized)
       THEN LET inflight == IF refreshes = {} THEN 0
                            ELSE CHOOSE n \in {r.id : r \in refreshes} :
                                    \A m \in {r.id : r \in refreshes} : m <= n
                d == [c EXCEPT !.resp = resp, !.refreshAwaits = @ + 1,
                               !.arrived = inflight,
                               !.held = Truthy(refreshToken)]
            IN
            IF ~Truthy(refreshToken)
            THEN \* return false; the caller throws, catches and rethrows
                 /\ calls' = [calls EXCEPT ![p] =
                        [d EXCEPT !.obs = "false", !.pc = "done",
                                  !.result = Catch(SessionExpired)]]
                 /\ UNCHANGED <<accessToken, refreshToken, storage, isRefreshing,
                                refreshPromise, refreshes, outcomes>>
            ELSE IF JoinsInFlight(isRefreshing, refreshPromise)
            THEN \* return this.refreshPromise
                 /\ calls' = [calls EXCEPT ![p] =
                        [d EXCEPT !.awaits = refreshPromise.id,
                                  !.pc = "awaitRefresh"]]
                 /\ UNCHANGED <<accessToken, refreshToken, storage, isRefreshing,
                                refreshPromise, refreshes, outcomes>>
            ELSE \* a new refresh task, up to its await fetch
                 LET n == Len(outcomes) + 1 IN
                 /\ isRefreshing' = TRUE
                 /\ refreshPromise' = PromiseOf(n)
                 /\ refreshes' = refreshes \cup {[id |-> n, token |-> refreshToken]}
                 /\ outcomes' = Append(outcomes, "pending")
                 /\ calls' = [calls EXCEPT ![p] =
                        [d EXCEPT !.awaits = n, !.startedRefresh = TRUE,
                                  !.pc = "awaitRefresh"]]
                 /\ UNCHANGED <<accessToken, refreshToken, storage>>
       ELSE LET res == Settle(c, resp) IN
            /\ calls' = [calls EXCEPT ![p] =
                   [c EXCEPT !.resp = resp, !.pc = "done", !.result = res]]
            /\ StoreIs(AfterRequest(c, resp, res, StoreOf))
            /\ UNCHANGED <<isRefreshing, refreshPromise, refreshes, outcomes>>

\* Only the caller that started the refresh task goes on when it returns
ResumeStarterOnly(c, ok, token) ==
    IF ~c.startedRefresh THEN c
    ELSE IF ok
    THEN [c EXCEPT !.obs = "true", !.pc = "fetch",
                   !.retryOnUnauthorized = RetryOnUnauthorizedOfRetry,
                   !.hdr = AuthorizationHeader(c.requiresAuth, token),
                   !.httpCalls = @ + 1]
    ELSE [c EXCEPT !.obs = "false", !.pc = "done",
                   !.result = Catch(SessionExpired)]

\* The retry sent with the headers of the call that was rejected
ResumeSameHeaders(c, ok, token) ==
    IF ok
    THEN [c EXCEPT !.obs = "true", !.pc = "fetch",
                   !.retryOnUnauthorized = RetryOnUnauthorizedOfRetry,
                   !.httpCalls = @ + 1]
    ELSE [c EXCEPT !.obs = "false", !.pc = "done",
                   !.result = Catch(SessionExpired)]

\* The caller c after the refresh task it awaits returned ok, the access
\* credential then being token: the retry up to its await fetch, or the throw
Resume(c, ok, token) ==
    IF ok
    THEN [c EXCEPT !.obs = "true", !.pc = "fetch",
                   !.retryOnUnauthorized = RetryOnUnauthorizedOfRetry,
                   !.hdr = AuthorizationHeader(c.requiresAuth, token),
                   !.httpCalls = @ + 1]
    ELSE [c EXCEPT !.obs = "false", !.pc = "done",
                   !.result = Catch(SessionExpired)]

\* The HTTP call of refresh task r settles with resp: the task from its await
\* to its finally block, then every caller awaiting its promise
RefreshSettle(r, resp) ==
    LET out == RefreshOutcome(resp, StoreOf) IN
    /\ r \in refreshes
    /\ resp \in RefreshResponses
    /\ StoreIs(out.store)
    /\ isRefreshing' = AfterFinally(isRefreshing, refreshPromise).isRefreshing
    /\ refreshPromise' = AfterFinally(isRefreshing, refreshPromise).refreshPromise
    /\ refreshes' = refreshes \ {r}
    /\ outcomes' = [outcomes EXCEPT ![r.id] = IF out.ok THEN "true" ELSE "false"]
    /\ calls' = [p \in Callers |->
                    IF calls[p].pc = "awaitRefresh" /\ calls[p].awaits = r.id
                    THEN Resume(calls[p], out.ok, out.store.accessToken)
                    ELSE calls[p]]
    /\ UNCHANGED started

\* The client alone: localStorage works and no AuthProvider is mounted
Alone == UNCHANGED <<mode, last, page, user, isLoading, awaiting>>

Next ==
    \/ \E p \in Callers, requiresAuth \in BOOLEAN : Request(p, requiresAuth) /\ Alone
    \/ \E p \in Callers : Login(p) /\ Alone
    \/ \E p \in Callers : Register(p) /\ Alone
    \/ Logout /\ Alone
    \/ \E p \in Callers, resp \in Responses(FALSE) \cup Responses(TRUE) :
          Respond(p, resp) /\ Alone
    \/ \E r \in refreshes, resp \in RefreshResponses : RefreshSettle(r, resp) /\ Alone

Spec == Init /\ [][Next]_vars

\* Every HTTP call eventually settles: fetch() of a call of request(), and
\* fetch() of a refresh task, each answered or failed by the network.  The
\* continuations that follow run in the same step.
EveryFetchSettles ==
    /\ \A p \in Callers :
          WF_vars(\E resp \in Responses(FALSE) \cup Responses(TRUE) :
                     Respond(p, resp) /\ Alone)
    /\ \A n \in 1..MaxCalls :
          WF_vars(\E r \in refreshes, resp \in RefreshResponses :
                     r.id = n /\ RefreshSettle(r, resp) /\ Alone)

\* The client alone over a network that answers or fails every call
SpecLive == Init /\ [][Next]_vars /\ EveryFetchSettles

\* ------------------------------------- the token store over localStorage
\* localStorage as the browser gives it: "up" (every operation works), "full"
\* (setItem throws QuotaExceededError), "denied" (every access throws
\* SecurityError).  An operation of the token store gives the stored fields
\* it leaves and whether it raised.
StorageModes == {"up", "full", "denied"}

Ended(st, r) == [store |-> st, raised |-> r]

\* clearTokens(): the two fields, then removeItem
clearTokensIn(m, st) ==
    IF m = "denied"
    THEN Ended(Store(Null, Null, st.storage), TRUE)
    ELSE Ended(clearTokens, FALSE)

\* setTokens(tokens): the two fields, then setItem
setTokensIn(m, st, tokens) ==
    IF m = "up"
    THEN Ended(setTokens(tokens), FALSE)
    ELSE Ended(Store(tokens.accessToken, tokens.refreshToken, st.storage), TRUE)

\* loadTokens(): getItem, JSON.parse and the two field reads in the try
\* block, clearTokens() in the catch block
loadTokensIn(m, st) ==
    CASE m = "denied" -> clearTokensIn(m, st)              \* getItem throws
      [] st.storage.kind = "absent" -> Ended(st, FALSE)
      [] st.storage.kind \in {"malformed", "null"} -> clearTokensIn(m, st)
      [] OTHER ->
           Ended(Store(st.storage.accessToken, st.storage.refreshToken,
                       st.storage), FALSE)

\* new ApiClient(): the field initialisers, then loadTokens()
Constructed(m, rec) == loadTokensIn(m, Store(Null, Null, rec))

\* The module of the client has been evaluated and gave a client
HasClient == last.op # "none" /\ ~(last.op = "construct" /\ last.raised)

Operation(name, out) ==
    /\ StoreIs(out.store)
    /\ last' = [op |-> name, raised |-> out.raised, rec |-> storage]
    /\ UNCHANGED <<mode, page, isRefreshing, refreshPromise, refreshes, outcomes,
                   calls, started, user, isLoading, awaiting>>

\* A page load: the module is evaluated and the singleton constructed
Construct == Operation("construct", Constructed(mode, storage))

StoreSetTokens(n) ==
    /\ HasClient
    /\ Operation("setTokens", setTokensIn(mode, StoreOf, PairOf(n)))

StoreClearTokens ==
    /\ HasClient
    /\ Operation("clearTokens", clearTokensIn(mode, StoreOf))

\* logout(): clearTokens()
StoreLogout ==
    /\ HasClient
    /\ Operation("logout", clearTokensIn(mode, StoreOf))

\* The browser: localStorage fills up, is emptied, is denied or allowed again
StorageBecomes(m) ==
    /\ m # mode
    /\ mode' = m
    /\ UNCHANGED <<client, last, page, user, isLoading, awaiting>>

\* Another script or tab of the origin writes the record
RecordBecomes(rec) ==
    /\ mode = "up"
    /\ rec # storage
    /\ storage' = rec
    /\ UNCHANGED <<accessToken, refreshToken, isRefreshing, refreshPromise,
                   refreshes, outcomes, calls, started, mode, last, page, user,
                   isLoading, awaiting>>

\* Before the page is loaded: no client yet, any record, any localStorage
InitStore ==
    /\ accessToken = Null
    /\ refreshToken = Null
    /\ storage \in PersistedValues
    /\ isRefreshing = FALSE
    /\ refreshPromise = NoPromise
    /\ refreshes = {}
    /\ outcomes = <<>>
    /\ calls = [p \in Callers |-> NoCall]
    /\ started = 0
    /\ mode \in StorageModes
    /\ last = NoOperation
    /\ page = PageInit
    /\ AuthInit

NextStore ==
    \/ Construct
    \/ \E n \in 1..NumPairs : StoreSetTokens(n)
    \/ StoreClearTokens
    \/ StoreLogout
    \/ \E m \in StorageModes : StorageBecomes(m)
    \/ \E rec \in PersistedValues : RecordBecomes(rec)

SpecStore == InitStore /\ [][NextStore]_vars

\* ------------------------------------------------------------ AuthProvider
\* isAuthenticated() of the client: !!this.accessToken
isAuthenticated == Truthy(accessToken)

\* What the provider does with a call of the client:
\*   "no"          nothing: a page made the call
\*   "yes"         refreshUser, called by the mount effect or a page, awaits it
\*   "resumed"     that refreshUser went on after it settled, and ended
\*   "login"       login or register of the context awaits it
\*   "loginFailed" it rejected, and so did login or register of the context
\*   "loginWaits"  it resolved, login or register now awaits refreshUser
\*   "loginUser"   the refreshUser that login or register awaits, awaits it
\*   "loginDone"   login or register of the context resolved after it
Awaits ==
    {"no", "yes", "resumed", "login", "loginFailed", "loginWaits", "loginUser",
     "loginDone"}

\* The provider went on after every call it awaited that has settled: the
\* continuation of an await runs before the next event is handled
Quiet ==
    \A p \in Callers :
       ~(awaiting[p] \in {"yes", "login", "loginUser"} /\ calls[p].pc = "done")

\* refreshUser() after its await clearing the session on every rejection
AfterGetMeAnyRejection(res, st, u) ==
    IF res.kind = "resolved"
    THEN [store |-> st, user |-> res.value]
    ELSE [store |-> clearTokens, user |-> NoUser]

\* refreshUser() after its await: setUser(userData) in the try block;
\* clearTokens() and setUser(null) in the catch block when the status of the
\* error is 401.  st and u are the stored fields and the user at that moment.
AfterGetMe(res, st, u) ==
    IF res.kind = "resolved"
    THEN [store |-> st, user |-> res.value]
    ELSE IF res.hasStatus /\ res.status = 401
         THEN [store |-> clearTokens, user |-> NoUser]
         ELSE [store |-> st, user |-> u]

\* refreshUser() up to its return or its await of usersApi.getMe().  w is the
\* call of login or register whose continuation called it, 0 when the mount
\* effect or a page did.  When it returns at once, so does the login or
\* register that awaits it.
RefreshUserFrom(w) ==
    IF ~isAuthenticated
    THEN /\ user' = NoUser
         /\ isLoading' = FALSE
         /\ awaiting' = IF w = 0 THEN awaiting
                        ELSE [awaiting EXCEPT ![w] = "loginDone"]
         /\ UNCHANGED client
    ELSE /\ \E q \in Callers :
              /\ Request(q, TRUE)
              /\ awaiting' = IF w = 0 THEN [awaiting EXCEPT ![q] = "yes"]
                             ELSE [awaiting EXCEPT ![w] = "loginWaits",
                                                   ![q] = "loginUser"]
         /\ UNCHANGED <<user, isLoading>>

\* refreshUser() called by the mount effect or by a page
RefreshUser ==
    /\ Quiet
    /\ RefreshUserFrom(0)
    /\ UNCHANGED <<mode, last, page>>

\* refreshUser() from the settling of call p, which it awaits, to its end;
\* the login or register that awaited this refreshUser resolves with it
RefreshUserResumes(p) ==
    LET out == AfterGetMe(calls[p].result, StoreOf, user) IN
    /\ awaiting[p] \in {"yes", "loginUser"}
    /\ calls[p].pc = "done"
    /\ StoreIs(out.store)
    /\ user' = out.user
    /\ isLoading' = FALSE                                  \* finally
    /\ awaiting' = [awaiting EXCEPT ![p] =
                       IF awaiting[p] = "yes" THEN "resumed" ELSE "loginDone"]
    /\ UNCHANGED <<isRefreshing, refreshPromise, refreshes, outcomes, calls,
                   started, mode, last, page>>

\* login of the context up to its await of apiClient.login()
AuthLogin(p) ==
    /\ Quiet
    /\ Login(p)
    /\ awaiting' = [awaiting EXCEPT ![p] = "login"]
    /\ UNCHANGED <<mode, last, page, user, isLoading>>

\* register of the context up to its await of apiClient.register()
AuthRegister(p) ==
    /\ Quiet
    /\ Register(p)
    /\ awaiting' = [awaiting EXCEPT ![p] = "login"]
    /\ UNCHANGED <<mode, last, page, user, isLoading>>

\* login or register of the context from the settling of call p, which it
\* awaits: it rejects with the call, or calls refreshUser() and awaits it
LoginResumes(p) ==
    /\ awaiting[p] = "login"
    /\ calls[p].pc = "done"
    /\ IF calls[p].result.kind = "rejected"
       THEN /\ awaiting' = [awaiting EXCEPT ![p] = "loginFailed"]
            /\ UNCHANGED <<client, user, isLoading>>
       ELSE RefreshUserFrom(p)
    /\ UNCHANGED <<mode, last, page>>

\* logout of the context: apiClient.logout(), setUser(null)
AuthLogout ==
    /\ Quiet
    /\ Logout
    /\ user' = NoUser
    /\ UNCHANGED <<mode, last, page, isLoading, awaiting>>

\* The provider at rest while the client works: every continuation of
\* refreshUser has run, and the step writes nothing of the provider
AtRest == Quiet /\ UNCHANGED <<mode, last, page, user, isLoading, awaiting>>

\* refreshUser, login, register and logout of the context, and the client
\* under them: the calls of the pages and the answers of the backend
NextAuth ==
    \/ RefreshUser
    \/ \E p \in Callers : RefreshUserResumes(p)
    \/ \E p \in Callers : AuthLogin(p)
    \/ \E p \in Callers : AuthRegister(p)
    \/ \E p \in Callers : LoginResumes(p)
    \/ AuthLogout
    \/ \E p \in Callers, requiresAuth \in BOOLEAN : Request(p, requiresAuth) /\ AtRest
    \/ \E p \in Callers, resp \in Responses(FALSE) \cup Responses(TRUE) :
          Respond(p, resp) /\ AtRest
    \/ \E r \in refreshes, resp \in RefreshResponses : RefreshSettle(r, resp) /\ AtRest

SpecAuth == Init /\ [][NextAuth]_vars

\* ------------------------------------------------------------ route guards
\* isAuthenticated of the context: !!user
ContextIsAuthenticated(u) == u # NoUser

\* What ProtectedRoute renders around the trips, locations, contacts and
\* profile pages
ProtectedRoute(loading, authenticated) ==
    IF loading THEN "LoadingState"
    ELSE IF ~authenticated THEN "Navigate to /login"
    ELSE "children"

\* AuthRoute without its test of isLoading
AuthRouteNoLoading(loading, authenticated) ==
    IF authenticated THEN "Navigate to /trips" ELSE "children"

\* What AuthRoute renders around the login and register pages
AuthRoute(loading, authenticated) ==
    IF loading THEN "LoadingState"
    ELSE IF authenticated THEN "Navigate to /trips"
    ELSE "children"

\* ---------------------------------------------------------- ActiveTripPage
\* The component of mount m is the one on screen: a state setter called by a
\* continuation of an earlier mount does nothing
Live(m) == page.mounted /\ page.mounts = m

\* What GET /api/v1/trips/active is answered with: no response, or a 2xx
\* response with an empty body, the JSON null, or the JSON of a trip
TripAnswers ==
    {[http |-> NetworkFailure, json |-> NoTrip],
     [http |-> Http(200, "empty", Undef, 0), json |-> NoTrip],
     [http |-> Http(200, "json", Undef, 0), json |-> NoTrip],
     [http |-> Http(200, "json", Undef, 0), json |-> ActiveTrip]}

\* The backend reports no active trip
NoActiveTrip(ans) == Ok(ans.http) /\ ans.json = NoTrip

\* tripsApi.getActive(): what request() settles with for the answer ans
getActive(ans) ==
    LET res == Settle(NoCall, ans.http) IN
    IF res.kind = "resolved" /\ res.value = "parsed body"
    THEN Resolved(ans.json)
    ELSE res

\* trip && trip.status === 'ACTIVE'
StartsUpdates(trip) == trip = ActiveTrip

\* The cleanup of an effect that leaves the interval running
ClearIntervalNever(timers, ref) == timers

\* if (locationIntervalRef.current) clearInterval(locationIntervalRef.current)
ClearInterval(timers, ref) == {t \in timers : t.id # ref}

Aside == UNCHANGED <<client, mode, last, user, isLoading, awaiting>>

\* The route /trips/active is entered: a new component, its first render and
\* its two effects, loadTrip() up to its await of tripsApi.getActive()
Mount ==
    /\ ~page.mounted
    /\ page.mounts < MaxMounts
    /\ page' = [page EXCEPT
          !.mounted = TRUE, !.mounts = @ + 1,
          !.trip = NoTrip, !.locationUpdate = FALSE, !.alerts = {},
          !.isLoading = TRUE, !.error = FALSE, !.ref = 0, !.effect = FALSE,
          !.loads[page.mounts + 1] = [NoLoad EXCEPT !.stage = "getActive"]]
    /\ Aside

\* The route is left (navigation, by this page or by the user): the cleanups
\* of both effects
Unmount ==
    /\ page.mounted
    /\ page' = [page EXCEPT
          !.mounted = FALSE, !.effect = FALSE,
          !.timers = ClearInterval(ClearInterval(@, page.ref), page.ref)]
    /\ Aside

\* loadTrip() of mount m from the settling of getActive() to its next await
\* or its end
LoadTripAnswered(m, ans) ==
    LET res == getActive(ans)
        live == Live(m)
    IN
    /\ page.loads[m].stage = "getActive"
    /\ ans \in TripAnswers
    /\ page' =
         IF res.kind = "rejected"
         THEN [page EXCEPT !.loads[m].stage = "done",
                           !.error = IF live THEN TRUE ELSE @,
                           !.isLoading = IF live THEN FALSE ELSE @]
         ELSE IF res.value = NoTrip
         THEN [page EXCEPT !.loads[m].stage = "done",
                           !.loads[m].navigated = TRUE,
                           !.isLoading = IF live THEN FALSE ELSE @]
         ELSE [page EXCEPT !.loads[m].stage = "listForTrip",
                           !.trip = IF live THEN res.value ELSE @,
                           !.effect = IF live THEN TRUE ELSE @]
    /\ Aside

\* The backend handles GET /api/v1/alerts/trip/{id} of loadTrip: the alerts
\* of the trip as they are then, or a failure, which .catch turns into []
ServerListsForLoad(m, ok) ==
    /\ page.loads[m].stage = "listForTrip"
    /\ page' = [page EXCEPT !.loads[m].stage = "handled",
                            !.loads[m].list = IF ok THEN page.pending ELSE {}]
    /\ Aside

\* loadTrip() of mount m from the settling of listForTrip() to its end
LoadTripListed(m) ==
    /\ page.loads[m].stage = "handled"
    /\ page' = [page EXCEPT !.loads[m].stage = "done",
                            !.loads[m].list = {},
                            !.alerts = IF Live(m) THEN page.loads[m].list ELSE @,
                            !.isLoading = IF Live(m) THEN FALSE ELSE @]
    /\ Aside

\* The effect on [trip, sendLocationUpdate] after a render with a new trip:
\* its cleanup, then setInterval and sendLocationUpdate() up to its await
TripEffect ==
    LET cleared == ClearInterval(page.timers, page.ref)
        id == page.made + 1
    IN
    /\ page.mounted
    /\ page.effect
    /\ IF StartsUpdates(page.trip)
       THEN /\ page.updates < MaxUpdates
            /\ page' = [page EXCEPT
                  !.effect = FALSE, !.made = id, !.ref = id,
                  !.timers = cleared \cup {[id |-> id, mount |-> page.mounts]},
                  !.updates = @ + 1,
                  !.polls[page.updates + 1] =
                      [NoPoll EXCEPT !.stage = "updateLocation",
                                     !.mount = page.mounts]]
       ELSE page' = [page EXCEPT !.effect = FALSE, !.timers = cleared]
    /\ Aside

\* The interval timer id of the window fires: sendLocationUpdate() of the
\* render that set it, up to its await
TimerTick(id) ==
    /\ page.updates < MaxUpdates
    /\ \E t \in page.timers :
          /\ t.id = id
          /\ page' = [page EXCEPT
                !.updates = @ + 1,
                !.polls[page.updates + 1] =
                    [NoPoll EXCEPT !.stage = "updateLocation", !.mount = t.mount,
                                   !.late = ~Live(t.mount)]]
    /\ Aside

\* sendLocationUpdate() i from the settling of updateLocation() to its next
\* await, or to its end in the catch block
UpdateAnswered(i, ok) ==
    /\ page.polls[i].stage = "updateLocation"
    /\ page' =
         IF ok
         THEN [page EXCEPT !.polls[i].stage = "listForTrip",
                           !.locationUpdate =
                               IF Live(page.polls[i].mount) THEN TRUE ELSE @]
         ELSE [page EXCEPT !.polls[i].stage = "done", !.polls[i].mount = 0]
    /\ Aside

\* The backend handles the alert list call of sendLocationUpdate() i
ServerListsForPoll(i, ok) ==
    /\ page.polls[i].stage = "listForTrip"
    /\ page' = [page EXCEPT !.polls[i].stage = "handled",
                            !.polls[i].list = IF ok THEN page.pending ELSE {}]
    /\ Aside

\* sendLocationUpdate() i from the settling of listForTrip() to its end
PollListed(i) ==
    /\ page.polls[i].stage = "handled"
    /\ page' = [page EXCEPT
          !.polls[i].stage = "done",
          !.polls[i].list = {}, !.polls[i].mount = 0,
          !.alerts = IF Live(page.polls[i].mount) THEN page.polls[i].list ELSE @]
    /\ Aside

\* The alert a is on screen with its two buttons
Shown(a) ==
    /\ page.mounted
    /\ ~page.isLoading
    /\ page.trip # NoTrip
    /\ a \in page.alerts

\* A button of alert a is pressed: handleRespondToAlert up to its await
RespondToAlert(a) ==
    /\ Shown(a)
    /\ page.respond[a].stage \in {"none", "failed"}
    /\ page' = [page EXCEPT !.respond[a] = [stage |-> "sent", mount |-> page.mounts]]
    /\ Aside

\* The backend handles POST /api/v1/alerts/{a}/respond: the alert is no
\* longer PENDING; or the call fails and handleRespondToAlert ends in its
\* catch block
ServerResponds(a, ok) ==
    /\ page.respond[a].stage = "sent"
    /\ page' =
         IF ok
         THEN [page EXCEPT !.respond[a].stage = "handled",
                           !.pending = @ \ {a}]
         ELSE [page EXCEPT !.respond[a] = [stage |-> "failed", mount |-> 0]]
    /\ Aside

\* handleRespondToAlert for a from the settling of respond() to its end
RespondSucceeded(a) ==
    /\ page.respond[a].stage = "handled"
    /\ page' = [page EXCEPT
          !.respond[a] = [stage |-> "succeeded", mount |-> 0],
          !.alerts = IF Live(page.respond[a].mount) THEN @ \ {a} ELSE @]
    /\ Aside

\* The backend raises alert a for the trip
ServerRaises(a) ==
    /\ a \notin page.raised
    /\ page' = [page EXCEPT !.raised = @ \cup {a}, !.pending = @ \cup {a}]
    /\ Aside

\* A signed-in client at rest, and the page not yet visited
InitTrip ==
    /\ InitOver(Stringify(PairOf(1)))
    /\ mode = "up"
    /\ last = NoOperation
    /\ page = PageInit
    /\ AuthInit

NextTrip ==
    \/ Mount
    \/ Unmount
    \/ \E m \in 1..MaxMounts, ans \in TripAnswers : LoadTripAnswered(m, ans)
    \/ \E m \in 1..MaxMounts, ok \in BOOLEAN : ServerListsForLoad(m, ok)
    \/ \E m \in 1..MaxMounts : LoadTripListed(m)
    \/ TripEffect
    \/ \E id \in 1..MaxUpdates : TimerTick(id)
    \/ \E i \in 1..MaxUpdates, ok \in BOOLEAN : UpdateAnswered(i, ok)
    \/ \E i \in 1..MaxUpdates, ok \in BOOLEAN : ServerListsForPoll(i, ok)
    \/ \E i \in 1..MaxUpdates : PollListed(i)
    \/ \E a \in Alerts : RespondToAlert(a)
    \/ \E a \in Alerts, ok \in BOOLEAN : ServerResponds(a, ok)
    \/ \E a \in Alerts : RespondSucceeded(a)
    \/ \E a \in Alerts : ServerRaises(a)

SpecTrip == InitTrip /\ [][NextTrip]_vars

\* ------------------------------------------------------------ properties
Held(c) == c.refreshAwaits > 0 /\ c.held

\* C1: at every instant at most one refresh HTTP call is in flight, whatever
\* the interleaving of request(), login(), register() and logout().
C1_OneRefreshInFlight == Cardinality(refreshes) <= 1

\* Two calls await one refresh call in flight.
C1_Witness ==
    /\ Cardinality(refreshes) = 1
    /\ \E p, q \in Callers :
          p # q /\ calls[p].pc = "awaitRefresh" /\ calls[q].pc = "awaitRefresh"

\* C2 as stated: calls in flight together that each received a 401 while a
\* refresh credential was held caused one refresh call in total.
C2_OneRefreshInTotal ==
    \A p, q \in Callers :
        (InFlight(calls[p]) /\ InFlight(calls[q]) /\ Held(calls[p]) /\ Held(calls[q]))
            => calls[p].awaits = calls[q].awaits

\* C2 amended: a call that receives a 401 while a refresh credential is held
\* and a refresh call is in flight starts none of its own, awaits that one and
\* observes its outcome; with none in flight it starts one and observes the
\* outcome of its own; all calls waiting at one instant wait for the same call.
C2_SharedWhileInFlight ==
    /\ \A p \in Callers :
          LET c == calls[p] IN
          Held(c) =>
              /\ c.awaits \in 1..Len(outcomes)
              /\ c.startedRefresh <=> (c.arrived = 0)
              /\ c.arrived # 0 => c.awaits = c.arrived
              /\ (c.pc = "awaitRefresh") <=> (outcomes[c.awaits] = "pending")
              /\ c.pc # "awaitRefresh" => c.obs = outcomes[c.awaits]
    /\ \A p, q \in Callers :
          (calls[p].pc = "awaitRefresh" /\ calls[q].pc = "awaitRefresh")
              => calls[p].awaits = calls[q].awaits

\* Two calls shared one refresh call, started by one of them, and both
\* observed its outcome.
C2_Witness ==
    \E p, q \in Callers :
        /\ p # q /\ Held(calls[p]) /\ Held(calls[q])
        /\ calls[p].startedRefresh /\ ~calls[q].startedRefresh
        /\ calls[q].awaits = calls[p].awaits
        /\ calls[p].obs = "true" /\ calls[q].obs = "true"

\* C3: a caller of refreshAccessToken() that arrives while a refresh is in
\* flight starts no backend call and receives the boolean that refresh ends
\* with, whatever happened since the refresh started.
C3_ArrivalSharesOutcome ==
    \A p \in Callers :
        LET c == calls[p] IN
        (c.refreshAwaits > 0 /\ c.arrived # 0) =>
            /\ ~c.startedRefresh
            /\ (c.obs # "none" /\ outcomes[c.arrived] # "pending")
                   => c.obs = outcomes[c.arrived]

\* C4 as stated: a call that awaited a successful refresh resolves.
C4_ResolvesAfterRefresh ==
    \A p \in Callers :
        (calls[p].obs = "true" /\ calls[p].pc = "done")
            => calls[p].result.kind = "resolved"

\* C4 amended: a call that awaited a successful refresh makes its HTTP call
\* exactly once more, with retryOnUnauthorized = false and without a second
\* refresh, and settles as the answer to that second call decides: it
\* resolves exactly when the answer is 2xx with an empty or parseable body.
C4_RetriesOnce ==
    \A p \in Callers :
        LET c == calls[p] IN
        c.obs = "true" =>
            /\ c.pc \in {"fetch", "done"}
            /\ c.httpCalls = 2
            /\ c.refreshAwaits = 1
            /\ ~c.retryOnUnauthorized
            /\ c.pc = "done" =>
                  ((c.result.kind = "resolved") <=>
                      (c.resp.kind = "response" /\ Ok(c.resp) /\ c.resp.body # "text"))
            /\ c.pc = "done" => c.result.kind # "pending"

\* Two calls awaited one successful refresh; one resolved on its retry and
\* the other was answered 401 on its retry.
C4_Witness ==
    \E p, q \in Callers :
        /\ p # q /\ calls[p].awaits = calls[q].awaits
        /\ calls[p].obs = "true" /\ calls[p].pc = "done"
        /\ calls[p].result.kind = "resolved"
        /\ calls[q].obs = "true" /\ calls[q].pc = "done"
        /\ calls[q].resp.status = 401

\* C5: when a refresh call fails (no response, a non-2xx response, an
\* unreadable body), every call awaiting it rejects with status 401 and the
\* message 'Session expired. Please login again.', and the credential pair is
\* then absent in memory and in localStorage; and every call that
\* refreshAccessToken() answered false is rejected with that error.
C5_FailedRefreshRejectsAll ==
    /\ [](\A p \in Callers :
            calls[p].obs = "false" =>
                (calls[p].pc = "done" /\ calls[p].result = SessionExpired))
    /\ [][\A r \in refreshes :
          (r \notin refreshes' /\ outcomes'[r.id] = "false") =>
              /\ accessToken' = Null /\ refreshToken' = Null /\ storage' = NoRecord
              /\ \A p \in Callers :
                    (calls[p].pc = "awaitRefresh" /\ calls[p].awaits = r.id) =>
                        /\ calls'[p].pc = "done"
                        /\ calls'[p].httpCalls = 1
                        /\ calls'[p].obs = "false"
                        /\ calls'[p].result = SessionExpired]_vars

\* Two calls awaited one refresh that failed and both are rejected.
C5_Witness ==
    \E p, q \in Callers :
        /\ p # q /\ calls[p].awaits # 0 /\ calls[p].awaits = calls[q].awaits
        /\ outcomes[calls[p].awaits] = "false"
        /\ calls[p].result = SessionExpired /\ calls[q].result = SessionExpired
        /\ accessToken = Null /\ storage = NoRecord

\* C6: one request() call makes at most two HTTP calls and awaits at most one
\* refresh; the second call is made with retryOnUnauthorized = false, and a
\* 401 answer to it ends the call with an error of status 401.
C6_AtMostOneRetry ==
    \A p \in Callers :
        LET c == calls[p] IN
        /\ c.httpCalls <= 2
        /\ c.refreshAwaits <= 1
        /\ c.httpCalls = 2 => (~c.retryOnUnauthorized /\ c.refreshAwaits = 1)
        /\ (c.httpCalls = 2 /\ c.resp.status = 401 /\ c.obs = "true") =>
              (c.pc = "fetch" \/
               (c.pc = "done" /\ c.result.kind = "rejected" /\ c.result.status = 401))

\* A retry was answered 401 and the call ended there.
C6_Witness ==
    \E p \in Callers :
        /\ calls[p].httpCalls = 2 /\ calls[p].pc = "done"
        /\ calls[p].resp.status = 401 /\ calls[p].result.kind = "rejected"
        /\ refreshes = {}

\* C7: a call made with requiresAuth = false carries no Authorization header
\* set by the client and never invokes refreshAccessToken(), whatever the
\* status of the answer and whether or not an access credential is held.
C7_NoAuthNoHeaderNoRefresh ==
    \A p \in Callers :
        LET c == calls[p] IN
        (c.pc # "idle" /\ ~c.requiresAuth) =>
            /\ c.hdr = NoHeader
            /\ c.httpCalls = 1
            /\ c.refreshAwaits = 0 /\ c.awaits = 0 /\ c.obs = "none"
            /\ ~c.startedRefresh

\* A call made with requiresAuth = false while both credentials were held was
\* answered 401, and ended with that error.
C7_Witness ==
    \E p \in Callers :
        /\ ~calls[p].requiresAuth /\ calls[p].pc = "done"
        /\ calls[p].resp.status = 401 /\ calls[p].result.status = 401
        /\ Truthy(accessToken) /\ Truthy(refreshToken)
        /\ Len(outcomes) = 0

\* C8: the credential pair is never partial: the access credential is present
\* exactly when the refresh credential is, in memory and in the persisted
\* record.
C8_PairNeverPartial ==
    /\ Truthy(accessToken) <=> Truthy(refreshToken)
    /\ storage.kind = "object" =>
          (Truthy(storage.accessToken) <=> Truthy(storage.refreshToken))

\* C9: request() rejects with status 0 only when its HTTP call got no
\* response.
C9_StatusZeroOnlyWithoutResponse ==
    \A p \in Callers :
        LET c == calls[p] IN
        (c.pc = "done" /\ c.result.kind = "rejected" /\ c.result.status = 0)
            => c.resp.kind = "failure"

\* C10: every rejection of request() carries an integer status and a string
\* message.
C10_RejectionIsNormalized ==
    \A p \in Callers :
        LET c == calls[p] IN
        (c.pc = "done" /\ c.result.kind = "rejected") =>
            /\ c.result.hasStatus /\ c.result.status \in Int
            /\ c.result.message # Undef

\* The step in which the HTTP call of p is answered
Answered(p) == calls[p].pc = "fetch" /\ calls'[p] # calls[p]

C14_MarkerClearedOnSettle ==
    /\ isRefreshing <=> (refreshes # {})
    /\ (refreshPromise # NoPromise) <=> (refreshes # {})
    /\ \A p \in Callers :
          LET c == calls[p] IN
          /\ (Held(c) /\ c.arrived = 0) =>
                (c.startedRefresh /\
                 \A q \in Callers \ {p} :
                    calls[q].startedRefresh => calls[q].awaits # c.awaits)
          /\ c.pc = "awaitRefresh" =>
                (outcomes[c.awaits] = "pending" /\ refreshPromise = PromiseOf(c.awaits))

\* A second refresh call is in flight after the first one settled.
C14_Witness ==
    /\ Len(outcomes) = 2 /\ outcomes[1] # "pending" /\ outcomes[2] = "pending"
    /\ \E p, q \in Callers :
          /\ calls[p].startedRefresh /\ calls[p].awaits = 1
          /\ calls[q].startedRefresh /\ calls[q].awaits = 2

\* C15: refreshAccessToken() called while no refresh credential is held
\* returns false at once: no network call, the in-flight marker and the
\* stored fields as they were; the request() that called it rejects with
\* status 401.
C15_NoCredentialNoRefresh ==
    [][\A p \in Callers :
          (Answered(p) /\ calls'[p].refreshAwaits = calls[p].refreshAwaits + 1
             /\ ~Truthy(refreshToken)) =>
              /\ calls'[p].obs = "false"
              /\ calls'[p].pc = "done"
              /\ calls'[p].httpCalls = calls[p].httpCalls
              /\ calls'[p].result.kind = "rejected"
              /\ calls'[p].result.hasStatus /\ calls'[p].result.status = 401
              /\ UNCHANGED <<isRefreshing, refreshPromise, refreshes, outcomes,
                             accessToken, refreshToken, storage>>]_vars

\* A call was turned away for want of a refresh credential while a refresh
\* call was in flight, and the marker is still set.
C15_Witness ==
    \E p \in Callers :
        /\ calls[p].refreshAwaits = 1 /\ ~calls[p].held /\ calls[p].obs = "false"
        /\ calls[p].result = SessionExpired
        /\ calls[p].arrived # 0 /\ isRefreshing /\ refreshes # {}

\* C17: login() and register() store a pair only when their HTTP call is
\* answered 2xx; when request() rejects, they reject with its error and the
\* pair in memory and in localStorage is what it was.
C17_LoginStoresOnlyOnSuccess ==
    [][\A p \in Callers :
          (Answered(p) /\ calls[p].storesTokens) =>
              LET resp == calls'[p].resp
                  res == calls'[p].result
                  twoxx == resp.kind = "response" /\ resp.status \in 200..299
              IN
              /\ calls'[p].pc = "done"
              /\ ~twoxx => res.kind = "rejected"
              /\ (resp.kind = "response" /\ ~twoxx) =>
                    (res.hasStatus /\ res.status = resp.status)
              /\ resp.kind = "failure" => res = NetworkError
              /\ res.kind = "rejected" =>
                    UNCHANGED <<accessToken, refreshToken, storage>>
              /\ (res.kind = "resolved" /\ resp.pair # 0) =>
                    /\ accessToken' = AccessOf(resp.pair)
                    /\ refreshToken' = RefreshOf(resp.pair)
                    /\ storage' = Stringify(PairOf(resp.pair))]_vars

\* A login was answered 401 and the pair held before it is still held.
C17_Witness ==
    \E p \in Callers :
        /\ calls[p].storesTokens /\ calls[p].pc = "done"
        /\ calls[p].result.kind = "rejected" /\ calls[p].result.status = 401
        /\ accessToken = AccessOf(1) /\ refreshToken = RefreshOf(1)
        /\ storage = Stringify(PairOf(1))

\* C18: an answer outside 2xx that is no recoverable 401 ends the call there:
\* no further HTTP call, no refresh, the in-flight marker and the credential
\* pair as they were, and a rejection whose status is the status of the
\* answer; a call so answered on its first attempt made one HTTP call.
C18_OtherFailuresSurface ==
    [][\A p \in Callers :
          LET c == calls[p]
              resp == calls'[p].resp
          IN
          (Answered(p) /\ resp.kind = "response" /\ resp.status \notin 200..299
             /\ ~(resp.status = 401 /\ c.requiresAuth /\ c.retryOnUnauthorized)) =>
              /\ calls'[p].pc = "done"
              /\ calls'[p].httpCalls = c.httpCalls
              /\ calls'[p].refreshAwaits = c.refreshAwaits
              /\ c.retryOnUnauthorized => calls'[p].httpCalls = 1
              /\ calls'[p].result.kind = "rejected"
              /\ calls'[p].result.hasStatus
              /\ calls'[p].result.status = resp.status
              /\ UNCHANGED <<isRefreshing, refreshPromise, refreshes, outcomes,
                             accessToken, refreshToken, storage>>]_vars

\* An authenticated call made while both credentials are held was answered
\* 500 and rejected with 500 after one HTTP call.
C18_Witness ==
    \E p \in Callers :
        /\ calls[p].requiresAuth /\ calls[p].pc = "done" /\ calls[p].httpCalls = 1
        /\ calls[p].resp.status = 500 /\ calls[p].result.status = 500
        /\ calls[p].refreshAwaits = 0
        /\ Truthy(accessToken) /\ Truthy(refreshToken)

\* C19: a 2xx answer with an empty body makes request() resolve with an
\* empty object.
C19_EmptyBodyResolves ==
    \A p \in Callers :
        LET c == calls[p] IN
        (c.pc = "done" /\ c.resp.kind = "response" /\ c.resp.status \in 200..299
           /\ c.resp.body = "empty") => c.result = Resolved("{}")

\* A call was answered 200 with an empty body and resolved.
C19_Witness ==
    \E p \in Callers :
        /\ calls[p].pc = "done" /\ calls[p].resp = Http(200, "empty", Undef, 0)
        /\ calls[p].result.kind = "resolved" /\ calls[p].result.value = "{}"


\* ------------------------------------------------------ token store claims
\* A persisted record that is no valid credential pair
Corrupt(rec) ==
    \/ rec.kind \in {"malformed", "null", "number"}
    \/ rec.kind = "object" /\ (rec.accessToken = Undef \/ rec.refreshToken = Undef)

\* C11: constructing the client over a persisted record that does not parse
\* as a valid credential pair (malformed JSON, a non-object value, an object
\* missing a field) leaves the pair absent in memory and removes the record.
C11_CorruptRecordCleared ==
    [][(Construct /\ mode = "up" /\ Corrupt(storage))
         => /\ ~Truthy(accessToken') /\ ~Truthy(refreshToken')
            /\ storage' = NoRecord]_vars

\* C12: when the operations of localStorage throw, construction (and its
\* loadTokens()) and clearTokens() complete without raising and leave the
\* pair absent.
C12_UnavailableStorageIsAbsent ==
    [][(mode = "denied" /\ (Construct \/ StoreClearTokens))
         => /\ ~last'.raised
            /\ accessToken' = Null /\ refreshToken' = Null]_vars

\* C16: logout() cannot fail, and on return both credentials are absent in
\* memory and the persisted record is removed, from any prior state.  (It
\* makes no backend call: logout() is clearTokens() alone.)
C16_LogoutCannotFail ==
    [][StoreLogout
         => /\ ~last'.raised
            /\ accessToken' = Null /\ refreshToken' = Null
            /\ storage' = NoRecord]_vars


\* ------------------------------------------------------ AuthProvider claims
\* C20: when the call refreshUser awaits rejects with status 401, refreshUser
\* clears the stored credentials and sets user to null; when it rejects with
\* any other status, it leaves the credentials and the user as they are; and
\* whenever refreshUser ends, isLoading is false.
C20_RefreshUserOnRejection ==
    [][/\ \A p \in Callers :
             (RefreshUserResumes(p) /\ calls[p].result.kind = "rejected")
               => /\ isLoading' = FALSE
                  /\ IF calls[p].result.status = 401
                     THEN /\ accessToken' = Null /\ refreshToken' = Null
                          /\ storage' = NoRecord
                          /\ user' = NoUser
                     ELSE /\ accessToken' = accessToken
                          /\ refreshToken' = refreshToken
                          /\ storage' = storage
                          /\ user' = user
       /\ \A p \in Callers :
             (RefreshUserResumes(p) /\ calls[p].result.kind = "resolved")
               => isLoading' = FALSE
       /\ (RefreshUser /\ ~isAuthenticated) => isLoading' = FALSE]_vars

\* refreshUser went on after a 401 that answered the retry of its call (the
\* refresh before it had succeeded), and the pair and the user are gone;
\* another call of refreshUser went on after a rejection with another status
C20_Witness ==
    /\ \E p \in Callers :
          /\ awaiting[p] = "resumed"
          /\ calls[p].result.kind = "rejected"
          /\ calls[p].result.status = 401
          /\ calls[p].obs = "true"
          /\ accessToken = Null /\ user = NoUser /\ ~isLoading
    /\ \E q \in Callers :
          /\ awaiting[q] = "resumed"
          /\ calls[q].result.kind = "rejected"
          /\ calls[q].result.status # 401


\* ------------------------------------------------- request pipeline claims
\* Call p sends an HTTP call in this step
Sends(p) == calls'[p].httpCalls > calls[p].httpCalls

\* C21: every HTTP call of an authenticated request() carries
\* 'Authorization: Bearer t', t being the access credential held when the
\* call is sent; the retry after a successful refresh carries the credential
\* that refresh returned, not the rejected one the call carried before.
C21_BearerIsCurrentCredential ==
    [][/\ \A p \in Callers :
             (Sends(p) /\ calls'[p].requiresAuth /\ Truthy(accessToken'))
               => calls'[p].hdr = "Bearer " \o accessToken'
       /\ \A r \in refreshes, n \in 1..NumPairs, p \in Callers :
             (/\ RefreshSettle(r, Http(200, "json", Undef, n))
              /\ calls[p].pc = "awaitRefresh" /\ calls[p].awaits = r.id)
               => /\ Sends(p)
                  /\ calls'[p].hdr = "Bearer " \o AccessOf(n)
                  /\ calls[p].hdr # "Bearer " \o AccessOf(n)
                       => calls'[p].hdr # calls[p].hdr]_vars

\* A call sent with the first credential was retried with the second one,
\* which the refresh had just stored
C21_Witness ==
    \E p \in Callers :
       /\ calls[p].pc = "fetch"
       /\ calls[p].httpCalls = 2
       /\ calls[p].obs = "true"
       /\ calls[p].hdr = "Bearer " \o AccessOf(2)
       /\ accessToken = AccessOf(2)
       /\ outcomes = <<"true">>


\* C22: provided every HTTP call eventually settles, every call of request()
\* eventually resolves or rejects, the callers that joined a refresh in flight
\* included: no caller waits forever.
C22_EveryCallSettles ==
    \A p \in Callers : InFlight(calls[p]) ~> calls[p].pc = "done"

\* A caller that joined the refresh another caller had started has settled
C22_Witness ==
    \E p \in Callers :
       /\ calls[p].pc = "done"
       /\ calls[p].refreshAwaits = 1
       /\ calls[p].held
       /\ ~calls[p].startedRefresh
       /\ calls[p].arrived # 0


\* C23: a refresh that settles after logout() or after a successful login()
\* or register() does not alter the credential state those established.  The
\* refresh task r was started with the refresh credential r.token; the
\* credential held differs from it only when logout(), login() or register()
\* has written the pair since.
C23_LateRefreshKeepsState ==
    [][\A r \in refreshes, resp \in RefreshResponses :
          (RefreshSettle(r, resp) /\ refreshToken # r.token)
            => /\ accessToken' = accessToken
               /\ refreshToken' = refreshToken
               /\ storage' = storage]_vars


\* The in-memory pair and the record agree: no record and no pair, or a
\* record holding the two credentials held in memory
Agree(st) ==
    \/ /\ st.storage = NoRecord
       /\ st.accessToken = Null /\ st.refreshToken = Null
    \/ /\ st.storage.kind = "object"
       /\ Truthy(st.accessToken) /\ Truthy(st.refreshToken)
       /\ st.storage.accessToken = st.accessToken
       /\ st.storage.refreshToken = st.refreshToken

\* C24: after every completed logout, refresh, login or register (the callers
\* of setTokens and clearTokens), the in-memory pair and the record
\* 'safewalk_tokens' agree: the record exists exactly when the pair is
\* present and then holds the same two credentials.
C24_MemoryAgreesWithRecord ==
    [][(\/ Logout
        \/ \E r \in refreshes, resp \in RefreshResponses : RefreshSettle(r, resp)
        \/ \E p \in Callers, resp \in Responses(TRUE) :
              /\ Respond(p, resp)
              /\ calls[p].storesTokens
              /\ calls'[p].result.kind = "resolved")
         => Agree(Store(accessToken', refreshToken', storage'))]_vars


\* C25: whenever the context reports isAuthenticated (user is non-null), the
\* client holds an access credential; so after a failed refresh, triggered by
\* any call, has cleared the credentials, the context no longer reports
\* isAuthenticated.
C25_AuthenticatedHoldsCredential ==
    user # NoUser => Truthy(accessToken)


\* login or register of the context resolves in this step
LoginResolves ==
    \E p \in Callers : awaiting'[p] = "loginDone" /\ awaiting[p] # "loginDone"

\* C26: when login or register of the context resolves without error, user is
\* non-null, so that the navigation to /trips the page performs next is not
\* sent back to /login.
C26_LoginResolvesAuthenticated ==
    [][LoginResolves => user' # NoUser]_vars


\* C27: a protected page is rendered only when isLoading is false and user is
\* non-null, a login or register page only when isLoading is false and user
\* is null; isLoading starts true, is false once a refreshUser has ended, and
\* never returns to true.
C27_RouteGuards ==
    /\ isLoading = TRUE
    /\ [](/\ ProtectedRoute(isLoading, ContextIsAuthenticated(user)) = "children"
             => (~isLoading /\ user # NoUser)
          /\ AuthRoute(isLoading, ContextIsAuthenticated(user)) = "children"
             => (~isLoading /\ user = NoUser)
          /\ (\E p \in Callers : awaiting[p] \in {"resumed", "loginDone"})
             => ~isLoading)
    /\ [][/\ isLoading' => isLoading
          /\ (RefreshUser /\ ~isAuthenticated) => ~isLoading'
          /\ \A p \in Callers : RefreshUserResumes(p) => ~isLoading']_vars

\* The first refreshUser has ended with a user, and a protected page is
\* rendered; a login page would be sent to /trips
C27_Witness ==
    /\ ~isLoading
    /\ user # NoUser
    /\ \E p \in Callers : awaiting[p] = "resumed"
    /\ ProtectedRoute(isLoading, ContextIsAuthenticated(user)) = "children"
    /\ AuthRoute(isLoading, ContextIsAuthenticated(user)) = "Navigate to /trips"


\* A location update is started in this step
UpdateStarts == page'.updates # page.updates

\* C28: at most one location-update interval timer is active at any time, a
\* timer is active only while the component is mounted with a trip of status
\* ACTIVE loaded, after the unmount no timer remains, and no location update
\* is started while the component is not mounted.
C28_OneTimerWhileActiveTrip ==
    /\ [](/\ Cardinality(page.timers) <= 1
          /\ page.timers # {} => (page.mounted /\ page.trip = ActiveTrip)
          /\ ~page.mounted => page.timers = {}
          /\ \A i \in 1..MaxUpdates : ~page.polls[i].late)
    /\ [][/\ UpdateStarts => (page.mounted /\ page.trip = ActiveTrip)
          /\ Unmount => page'.timers = {}]_vars

\* The page is entered a second time after a first visit that had its timer:
\* the second visit has made a timer of its own, the only one, and it has
\* fired
C28_Witness ==
    /\ page.mounted
    /\ page.mounts = 2
    /\ page.made = 2
    /\ page.timers = {[id |-> 2, mount |-> 2]}
    /\ page.updates = MaxUpdates


\* C29: after handleRespondToAlert has succeeded for an alert, that alert is
\* not in the list of pending alerts the page shows, whatever location-update
\* poll or load completes afterwards.
C29_RespondedAlertStaysHidden ==
    \A a \in Alerts : page.respond[a].stage = "succeeded" => a \notin page.alerts


\* C30: when GET /api/v1/trips/active reports no active trip, as the JSON
\* null or as a 2xx response with an empty body, loadTrip navigates to
\* /trips, stores no trip and brings about no location updates.
C30_NoActiveTripNavigates ==
    [][\A m \in 1..MaxMounts, ans \in TripAnswers :
          (LoadTripAnswered(m, ans) /\ NoActiveTrip(ans))
          => /\ page'.loads[m].navigated
             /\ page'.loads[m].stage = "done"
             /\ Live(m) => (page'.trip = NoTrip /\ ~page'.effect)]_vars

====
